---- MODULE Spec2Model ----
(***************************************************************************)
(* Model of the Todoist export transform (src/src/processForAI.ts,         *)
(* src/src/utils.ts).  The transform takes a flat snapshot of five         *)
(* collections and returns a nested export.  JavaScript objects and arrays *)
(* are modelled as cells of a heap so that aliasing (a shallow copy that   *)
(* shares its subtasks array with the original) is part of the model.      *)
(***************************************************************************)
EXTENDS Integers, Sequences, FiniteSets, TLC

VARIABLES
    snapshot,  \* the snapshot as the source yielded it (never written again)
    data,      \* the in-memory object handed to processForAI (mutable, as in JS)
    result,    \* the value returned by processForAI, or NoResult before the call
    pc         \* "fetched" before the call, "done" after it

vars == <<snapshot, data, result, pc>>

-----------------------------------------------------------------------------
(* Bounds of the model                                                     *)

MaxItems == 3
MaxProjects == 3
MaxSections == 2
MaxLabels == 2
MaxFilters == 2
MaxOrder == 1

-----------------------------------------------------------------------------
(* JavaScript values                                                       *)

Null == "null"
Undefined == "undefined"
NoResult == "none"

\* JS truthiness of a string-or-null value: null, undefined and "" are falsy.
Truthy(v) == v \notin {Null, Undefined, ""}

\* a || b
OrElse(a, b) == IF Truthy(a) THEN a ELSE b

\* Array.prototype.sort with a numeric comparator (a, b) => key(a) - key(b):
\* a stable sort, ascending in keys; keys[i] is the key of s[i].
StableSort(s, keys) ==
    LET n == Len(s)
        Rank(i) == Cardinality({j \in 1..n : keys[j] < keys[i]
                                              \/ (keys[j] = keys[i] /\ j < i)}) + 1
    IN [k \in 1..n |-> s[CHOOSE i \in 1..n : Rank(i) = k]]

\* Array.prototype.filter
RECURSIVE FilterSeq(_, _)
FilterSeq(s, keep) ==
    IF s = <<>> THEN <<>>
    ELSE IF keep[1] THEN <<Head(s)>> \o FilterSeq(Tail(s), Tail(keep))
         ELSE FilterSeq(Tail(s), Tail(keep))

\* A JS Map: insertion-ordered keys and the value of each key.
EmptyMap == [keys |-> <<>>, val |-> <<>>]
MapHas(m, k) == k \in DOMAIN m.val
MapGet(m, k) == IF MapHas(m, k) THEN m.val[k] ELSE Undefined
MapSet(m, k, v) ==
    IF MapHas(m, k) THEN [m EXCEPT !.val[k] = v]
    ELSE [keys |-> Append(m.keys, k), val |-> (k :> v) @@ m.val]

\* The heap: objs[a] is the object at address a, arrs[a] the array at a.
EmptyHeap == [objs |-> <<>>, arrs |-> <<>>]
NewArr(h) == [h EXCEPT !.arrs = Append(@, <<>>)]
NewObj(h, rec) == [h EXCEPT !.objs = Append(@, rec)]
Push(h, a, x) == [h EXCEPT !.arrs[a] = Append(@, x)]

-----------------------------------------------------------------------------
(* src/src/utils.ts                                                        *)

InternalIdFields == {"id", "project_id", "section_id", "parent_id"}

\* A copy that also copies the subtasks array instead of sharing it.
removeInternalIdsDeep(h, a) ==
    LET item == h.objs[a]
        h1 == [h EXCEPT !.arrs = Append(@, h.arrs[item.subtasks])]
        clean == [f \in DOMAIN item \ InternalIdFields |->
                    IF f = "subtasks" THEN Len(h1.arrs) ELSE item[f]]
        h2 == NewObj(h1, clean)
    IN [h |-> h2, addr |-> Len(h2.objs)]

\* No copy, no stripping: the object itself is handed on.
removeInternalIdsNone(h, a) == [h |-> h, addr |-> a]

\* const { id, project_id, section_id, parent_id, ...clean } = item; return clean
\* A new object; every remaining field, subtasks included, holds the same
\* value (for subtasks: the same array) as the original.
removeInternalIds(h, a) ==
    LET item == h.objs[a]
        clean == [f \in DOMAIN item \ InternalIdFields |-> item[f]]
        h1 == NewObj(h, clean)
    IN [h |-> h1, addr |-> Len(h1.objs)]

mapPriority(p) ==
    CASE p = 4 -> "P1"
      [] p = 3 -> "P2"
      [] p = 2 -> "P3"
      [] p = 1 -> "P4"
      [] OTHER -> "P4"

-----------------------------------------------------------------------------
(* src/src/processForAI.ts                                                 *)

\* data.labels.sort(...): sorts the caller's array in place and returns it.
SortedLabels(labels) ==
    StableSort(labels, [i \in DOMAIN labels |-> labels[i].item_order])

RECURSIVE BuildLabelMap(_, _, _)
BuildLabelMap(labels, k, m) ==
    IF k > Len(labels) THEN m
    ELSE BuildLabelMap(labels, k + 1, MapSet(m, labels[k].id, labels[k].name))

AllLabelNames(labels) == [i \in DOMAIN labels |-> labels[i].name]

\* The chain without its filter step: deleted filters are kept.
AllFiltersRaw(filters) ==
    LET sorted == StableSort(filters, [i \in DOMAIN filters |-> filters[i].item_order])
    IN [i \in DOMAIN sorted |-> [name |-> sorted[i].name, query |-> sorted[i].query]]

\* data.filters.filter(!is_deleted).sort(item_order).map({name, query})
AllFilters(filters) ==
    LET live == FilterSeq(filters, [i \in DOMAIN filters |-> ~filters[i].is_deleted])
        sorted == StableSort(live, [i \in DOMAIN live |-> live[i].item_order])
    IN [i \in DOMAIN sorted |-> [name |-> sorted[i].name, query |-> sorted[i].query]]

\* The items taken in input order, unsorted.
SortedRawItemsNoSort(items) == items

\* data.items.sort(...): sorts the caller's array in place and returns it.
SortedRawItems(items) ==
    StableSort(items, [i \in DOMAIN items |-> items[i].child_order])

\* labelMap.get(id) || "Unknown Label"
ResolveLabel(labelMap, id) == OrElse(MapGet(labelMap, id), "Unknown Label")

\* The object literal of lines 37-51; arr is the address of its fresh subtasks array.
CleanItem(item, labelMap, arr) ==
    [id |-> item.id,
     project_id |-> item.project_id,
     section_id |-> item.section_id,
     parent_id |-> item.parent_id,
     content |-> item.content,
     description |-> OrElse(item.description, Undefined),
     priority |-> mapPriority(item.priority),
     is_completed |-> (item.checked = 1),
     due |-> IF item.due.present THEN OrElse(item.due.string, item.due.date)
             ELSE Undefined,
     labels |-> [i \in DOMAIN item.labels |-> ResolveLabel(labelMap, item.labels[i])],
     subtasks |-> arr]

\* The callback without its first line: a deleted item is materialized too.
MaterializeItemKeepDeleted(item, labelMap, st) ==
    LET h1 == NewArr(st.h)
        h2 == NewObj(h1, CleanItem(item, labelMap, Len(h1.arrs)))
    IN [h |-> h2, itemMap |-> MapSet(st.itemMap, item.id, Len(h2.objs))]

\* The callback of sortedRawItems.forEach (lines 34-54) on one item: st = [h, itemMap]
MaterializeItem(item, labelMap, st) ==
    IF item.is_deleted THEN st
    ELSE LET h1 == NewArr(st.h)
             h2 == NewObj(h1, CleanItem(item, labelMap, Len(h1.arrs)))
         IN [h |-> h2, itemMap |-> MapSet(st.itemMap, item.id, Len(h2.objs))]

\* sortedRawItems.forEach(...)
RECURSIVE MaterializeItems(_, _, _, _)
MaterializeItems(items, labelMap, k, st) ==
    IF k > Len(items) THEN st
    ELSE MaterializeItems(items, labelMap, k + 1, MaterializeItem(items[k], labelMap, st))

\* The callback with the orphan case lost: a task whose parent is not in
\* itemMap is attached nowhere.
LinkItemDropOrphan(itemMap, st, a) ==
    LET item == st.h.objs[a]
    IN IF Truthy(item.parent_id)
       THEN IF MapHas(itemMap, item.parent_id)
            THEN LET parent == st.h.objs[MapGet(itemMap, item.parent_id)]
                     r == removeInternalIds(st.h, a)
                 IN [st EXCEPT !.h = Push(r.h, parent.subtasks, r.addr)]
            ELSE st
       ELSE [st EXCEPT !.rootItems = Append(@, a)]

\* The callback with a child also kept as a root: attached to its parent
\* and pushed to rootItems.
LinkItemAlsoRoot(itemMap, st, a) ==
    LET item == st.h.objs[a]
    IN IF Truthy(item.parent_id) /\ MapHas(itemMap, item.parent_id)
       THEN LET parent == st.h.objs[MapGet(itemMap, item.parent_id)]
                r == removeInternalIds(st.h, a)
            IN [h |-> Push(r.h, parent.subtasks, r.addr),
                rootItems |-> Append(st.rootItems, a)]
       ELSE [st EXCEPT !.rootItems = Append(@, a)]

\* The callback of itemMap.forEach (lines 56-63) on the item at address a:
\* st = [h, rootItems]
LinkItem(itemMap, st, a) ==
    LET item == st.h.objs[a]
    IN IF Truthy(item.parent_id) /\ MapHas(itemMap, item.parent_id)
       THEN LET parent == st.h.objs[MapGet(itemMap, item.parent_id)]
                r == removeInternalIds(st.h, a)
            IN [st EXCEPT !.h = Push(r.h, parent.subtasks, r.addr)]
       ELSE [st EXCEPT !.rootItems = Append(@, a)]

\* itemMap.forEach(...)
RECURSIVE LinkItems(_, _, _)
LinkItems(itemMap, k, st) ==
    IF k > Len(itemMap.keys) THEN st
    ELSE LinkItems(itemMap, k + 1, LinkItem(itemMap, st, itemMap.val[itemMap.keys[k]]))

\* rootItems.forEach(...): st = [h, groups]; groups is itemsByProjectAndSection,
\* a map project_id -> [noSection, sections], sections a map section_id -> tasks.
EmptyGroup == [noSection |-> <<>>, sections |-> EmptyMap]

RECURSIVE GroupRootItems(_, _, _)
GroupRootItems(rootItems, k, st) ==
    IF k > Len(rootItems) THEN st
    ELSE LET item == st.h.objs[rootItems[k]]
             g0 == IF MapHas(st.groups, item.project_id) THEN st.groups
                   ELSE MapSet(st.groups, item.project_id, EmptyGroup)
             projGroup == MapGet(g0, item.project_id)
             r == removeInternalIds(st.h, rootItems[k])
             newGroup ==
                 IF Truthy(item.section_id)
                 THEN LET secs == IF MapHas(projGroup.sections, item.section_id)
                                  THEN projGroup.sections
                                  ELSE MapSet(projGroup.sections, item.section_id, <<>>)
                      IN [projGroup EXCEPT !.sections =
                             MapSet(secs, item.section_id,
                                    Append(MapGet(secs, item.section_id), r.addr))]
                 ELSE [projGroup EXCEPT !.noSection = Append(@, r.addr)]
         IN GroupRootItems(rootItems, k + 1,
                [h |-> r.h, groups |-> MapSet(g0, item.project_id, newGroup)])

\* rawSections of one project (lines 97-101): the live sections of p, by section_order.
RawSections(sections, p) ==
    LET own == FilterSeq(sections, [i \in DOMAIN sections |->
                   sections[i].project_id = p.id /\ ~sections[i].is_deleted])
    IN StableSort(own, [i \in DOMAIN own |-> own[i].section_order])

\* projGroup?.sections.get(s.id) || []
SectionTasks(groups, p, s) ==
    IF MapHas(groups, p.id) /\ MapHas(MapGet(groups, p.id).sections, s.id)
    THEN MapGet(MapGet(groups, p.id).sections, s.id)
    ELSE <<>>

\* The variant of src/backup.ts:450-458: a section is pushed only if it has tasks.
ProjectSectionsDropEmpty(sections, groups, p) ==
    LET raw == RawSections(sections, p)
        all == [i \in DOMAIN raw |->
                   [name |-> raw[i].name, tasks |-> SectionTasks(groups, p, raw[i])]]
    IN FilterSeq(all, [i \in DOMAIN all |-> Len(all[i].tasks) > 0])

\* rawSections.forEach(s => projectSections.push({name, tasks}))
ProjectSections(sections, groups, p) ==
    LET raw == RawSections(sections, p)
    IN [i \in DOMAIN raw |->
           [name |-> raw[i].name, tasks |-> SectionTasks(groups, p, raw[i])]]

\* The object literal of lines 107-117; arr is the address of its fresh sub_projects array.
TempProject(p, sections, groups, arr) ==
    [_id |-> p.id,
     _parentId |-> p.parent_id,
     _childOrder |-> p.child_order,
     project |-> p.name,
     is_archived |-> p.is_archived,
     view_style |-> p.view_style,
     sections |-> ProjectSections(sections, groups, p),
     tasks |-> IF MapHas(groups, p.id) THEN MapGet(groups, p.id).noSection ELSE <<>>,
     sub_projects |-> arr]

\* data.projects.forEach(...): st = [h, projectMap]
RECURSIVE BuildProjects(_, _, _, _, _)
BuildProjects(projects, sections, groups, k, st) ==
    IF k > Len(projects) THEN st
    ELSE IF projects[k].is_deleted
         THEN BuildProjects(projects, sections, groups, k + 1, st)
    ELSE LET h1 == NewArr(st.h)
             h2 == NewObj(h1, TempProject(projects[k], sections, groups, Len(h1.arrs)))
         IN BuildProjects(projects, sections, groups, k + 1,
                [h |-> h2,
                 projectMap |-> MapSet(st.projectMap, projects[k].id, Len(h2.objs))])

\* projectMap.forEach(...): st = [h, rootProjects]
RECURSIVE LinkProjects(_, _, _)
LinkProjects(projectMap, k, st) ==
    IF k > Len(projectMap.keys) THEN st
    ELSE LET a == projectMap.val[projectMap.keys[k]]
             p == st.h.objs[a]
         IN IF Truthy(p._parentId) /\ MapHas(projectMap, p._parentId)
            THEN LET parent == st.h.objs[MapGet(projectMap, p._parentId)]
                 IN LinkProjects(projectMap, k + 1,
                        [st EXCEPT !.h = Push(st.h, parent.sub_projects, a)])
            ELSE LinkProjects(projectMap, k + 1,
                        [st EXCEPT !.rootProjects = Append(@, a)])

LinkageFields == {"_id", "_parentId", "_childOrder"}

\* arr.sort((a, b) => a._childOrder - b._childOrder) on an array of project addresses
SortProjects(h, arr) ==
    StableSort(arr, [i \in DOMAIN arr |-> h.objs[arr[i]]._childOrder])

\* finalizeProject(p): the clean project, its sub_projects sorted and finalized.
RECURSIVE finalizeProject(_, _)
finalizeProject(h, a) ==
    LET p == h.objs[a]
        subs == IF Len(h.arrs[p.sub_projects]) > 0
                THEN SortProjects(h, h.arrs[p.sub_projects])
                ELSE h.arrs[p.sub_projects]
    IN [f \in DOMAIN p \ LinkageFields |->
           IF f = "sub_projects"
           THEN [i \in DOMAIN subs |-> finalizeProject(h, subs[i])]
           ELSE p[f]]

\* The returned object graph written out as a value: every task address is
\* replaced by the object it points to, every subtasks address by the array.
RECURSIVE TaskValue(_, _)
TaskValue(h, a) ==
    LET t == h.objs[a]
    IN [f \in DOMAIN t |->
           IF f = "subtasks"
           THEN [i \in DOMAIN h.arrs[t.subtasks] |-> TaskValue(h, h.arrs[t.subtasks][i])]
           ELSE t[f]]

RECURSIVE ProjectValue(_, _)
ProjectValue(h, p) ==
    [f \in DOMAIN p |->
        CASE f = "tasks" -> [i \in DOMAIN p.tasks |-> TaskValue(h, p.tasks[i])]
          [] f = "sections" ->
                [i \in DOMAIN p.sections |->
                    [name |-> p.sections[i].name,
                     tasks |-> [j \in DOMAIN p.sections[i].tasks |->
                                   TaskValue(h, p.sections[i].tasks[j])]]]
          [] f = "sub_projects" ->
                [i \in DOMAIN p.sub_projects |-> ProjectValue(h, p.sub_projects[i])]
          [] OTHER -> p[f]]

\* Every count taken after the delete filters.
StatsLive(d, allLabelNames, allFilters) ==
    [total_projects |-> Cardinality({i \in DOMAIN d.projects : ~d.projects[i].is_deleted}),
     total_tasks |-> Cardinality({i \in DOMAIN d.items : ~d.items[i].is_deleted}),
     total_labels |-> Len(allLabelNames),
     total_filters |-> Len(allFilters)]

\* meta.stats (lines 146-151)
Stats(d, allLabelNames, allFilters) ==
    [total_projects |-> Len(d.projects),
     total_tasks |-> Len(d.items),
     total_labels |-> Len(allLabelNames),
     total_filters |-> Len(allFilters)]

\* processForAI(data) called at time now: the returned export (value) and the
\* snapshot object as the call leaves it (data).
Run(d, now) ==
    LET labels == SortedLabels(d.labels)
        labelMap == BuildLabelMap(labels, 1, EmptyMap)
        allLabelNames == AllLabelNames(labels)
        allFilters == AllFilters(d.filters)
        sortedRawItems == SortedRawItems(d.items)
        d1 == [d EXCEPT !.labels = labels, !.items = sortedRawItems]
        m == MaterializeItems(sortedRawItems, labelMap, 1,
                              [h |-> EmptyHeap, itemMap |-> EmptyMap])
        l == LinkItems(m.itemMap, 1, [h |-> m.h, rootItems |-> <<>>])
        g == GroupRootItems(l.rootItems, 1, [h |-> l.h, groups |-> EmptyMap])
        bp == BuildProjects(d1.projects, d1.sections, g.groups, 1,
                            [h |-> EmptyHeap, projectMap |-> EmptyMap])
        lp == LinkProjects(bp.projectMap, 1, [h |-> bp.h, rootProjects |-> <<>>])
        roots == SortProjects(lp.h, lp.rootProjects)
        finalProjectsTree == [i \in DOMAIN roots |-> finalizeProject(lp.h, roots[i])]
    IN [data |-> d1,
        value |->
          [meta |-> [generated_at |-> now,
                     stats |-> Stats(d1, allLabelNames, allFilters)],
           global_definitions |-> [available_labels |-> allLabelNames,
                                   available_filters |-> allFilters],
           projects_tree |-> [i \in DOMAIN finalProjectsTree |->
                                 ProjectValue(g.h, finalProjectsTree[i])]]]

-----------------------------------------------------------------------------
(* Snapshots: the raw records of section 3 of the specification            *)

ItemIdPool == <<"t1", "t2", "t3", "t4", "t5">>
ContentPool == <<"task A", "task B", "task C", "task D", "task E">>
ProjectIdPool == <<"p1", "p2", "p3", "p4", "p5">>
ProjectNamePool == <<"Work", "Home", "Garden", "Travel", "Books">>
SectionIdPool == <<"s1", "s2", "s3", "s4">>
SectionNamePool == <<"Todo", "Doing", "Done", "Later">>
LabelIdPool == <<"l1", "l2", "l3", "l4">>
LabelNamePool == <<"urgent", "errand", "phone", "waiting">>
FilterIdPool == <<"f1", "f2", "f3", "f4">>
FilterNamePool == <<"Today", "Overdue", "No date", "Assigned">>

Items == 1..MaxItems
Projects == 1..MaxProjects
Sections == 1..MaxSections
Labels == 1..MaxLabels
Filters == 1..MaxFilters
Orders == 0..MaxOrder

ItemIds == {ItemIdPool[i] : i \in Items}
ProjectIds == {ProjectIdPool[i] : i \in Projects}
LabelIds == {LabelIdPool[i] : i \in Labels}

\* An id that names no record of the snapshot.
GhostItem == "t0"
GhostProject == "p0"
GhostLabel == "l0"

RawItem(i, parent, section, order, deleted, labels) ==
    [id |-> ItemIdPool[i],
     project_id |-> "p1",
     section_id |-> section,
     parent_id |-> parent,
     content |-> ContentPool[i],
     description |-> IF i % 2 = 0 THEN "" ELSE "details",
     priority |-> i,
     checked |-> i % 2,
     due |-> [present |-> i % 3 # 0,
              string |-> IF i % 3 = 1 THEN "every day" ELSE "",
              date |-> "2024-01-01"],
     labels |-> labels,
     child_order |-> order,
     is_deleted |-> deleted]

RawProject(i, parent, order, deleted) ==
    [id |-> ProjectIdPool[i],
     parent_id |-> parent,
     name |-> ProjectNamePool[i],
     is_archived |-> (i % 3 = 0),
     view_style |-> IF i % 2 = 0 THEN "board" ELSE "list",
     child_order |-> order,
     is_deleted |-> deleted]

RawSection(i, project, order, deleted) ==
    [id |-> SectionIdPool[i],
     project_id |-> project,
     name |-> SectionNamePool[i],
     section_order |-> order,
     is_deleted |-> deleted]

RawLabel(i, name, order) ==
    [id |-> LabelIdPool[i], name |-> name, item_order |-> order]

RawFilter(i, order, deleted) ==
    [id |-> FilterIdPool[i],
     name |-> FilterNamePool[i],
     query |-> "today | overdue",
     item_order |-> order,
     is_deleted |-> deleted]

\* A snapshot that satisfies the raw-data invariants: every record live, every
\* reference resolved, every collection given in descending display rank.
DefaultSection(i) == IF i % 2 = 0 THEN "s1" ELSE Null
DefaultItems ==
    [i \in Items |-> RawItem(i, Null, DefaultSection(i), MaxItems - i, FALSE, <<"l1">>)]
DefaultProjects ==
    [i \in Projects |-> RawProject(i, IF i = 1 THEN Null ELSE "p1", MaxProjects - i, FALSE)]
DefaultSections ==
    [i \in Sections |-> RawSection(i, IF i % 2 = 0 THEN "p2" ELSE "p1", MaxSections - i, FALSE)]
DefaultLabels ==
    [i \in Labels |-> RawLabel(i, LabelNamePool[i], MaxLabels - i)]
DefaultFilters ==
    [i \in Filters |-> RawFilter(i, MaxFilters - i, FALSE)]
DefaultData ==
    [projects |-> DefaultProjects, sections |-> DefaultSections, items |-> DefaultItems,
     labels |-> DefaultLabels, filters |-> DefaultFilters]

\* The parent maps without a cycle (section 3, invariants on raw data): from
\* every record the chain of parents leaves the collection within n steps.
RECURSIVE Up(_, _, _, _)
Up(pool, par, id, n) ==
    IF n = 0 \/ id \notin {pool[i] : i \in DOMAIN par} THEN id
    ELSE Up(pool, par, par[CHOOSE i \in DOMAIN par : pool[i] = id], n - 1)
Acyclic(pool, par) ==
    \A i \in DOMAIN par :
        Up(pool, par, pool[i], Cardinality(DOMAIN par)) \notin {pool[j] : j \in DOMAIN par}

\* Task structure: any acyclic parent map (another task, a missing task, none)
\* and any delete flag for every task.
TaskParents == {f \in [Items -> ItemIds \cup {Null, GhostItem}] : Acyclic(ItemIdPool, f)}
TaskSnapshot(par, del) ==
    [DefaultData EXCEPT !.items =
        [i \in Items |-> RawItem(i, par[i], DefaultSection(i), MaxItems - i, del[i], <<"l1">>)]]

\* Task order: any child_order for every task; each task after the first is
\* parentless or a child of one same parent, which is t1, t1 deleted, or a
\* missing task; all tasks in section s1 or all in no section.
ParentKinds == {"live", "deleted", "missing"}
OrderSnapshot(ord, sub, sec, kind) ==
    [DefaultData EXCEPT !.items =
        [i \in Items |->
            RawItem(i, IF i > 1 /\ sub[i]
                       THEN (IF kind = "missing" THEN GhostItem ELSE "t1") ELSE Null,
                    sec, ord[i], i = 1 /\ kind = "deleted", <<>>)]]

\* Project structure: any acyclic parent map and any delete flag for every project.
ProjectParents ==
    {f \in [Projects -> ProjectIds \cup {Null, GhostProject}] : Acyclic(ProjectIdPool, f)}
ProjectSnapshot(par, del) ==
    [DefaultData EXCEPT !.projects =
        [i \in Projects |-> RawProject(i, par[i], MaxProjects - i, del[i])]]

\* Project order: any child_order for every project; each project after the
\* first is a root or a child of p1, which may be deleted.
ProjectOrderSnapshot(ord, sub, del) ==
    [DefaultData EXCEPT !.projects =
        [i \in Projects |-> RawProject(i, IF i > 1 /\ sub[i] THEN "p1" ELSE Null,
                                       ord[i], i = 1 /\ del)]]

\* Deletions: any delete flag for every task, project, section and filter, on
\* a chain of tasks (each the child of the one before) filed in p2, in a
\* chain of projects.
DeletionSnapshot(delItem, delProject, delSection, delFilter) ==
    [DefaultData EXCEPT
        !.items = [i \in Items |->
                      [RawItem(i, IF i = 1 THEN Null ELSE ItemIdPool[i - 1],
                               DefaultSection(i), MaxItems - i, delItem[i], <<"l1">>)
                          EXCEPT !.project_id = "p2"]],
        !.projects = [i \in Projects |->
                         RawProject(i, IF i = 1 THEN Null ELSE ProjectIdPool[i - 1],
                                    MaxProjects - i, delProject[i])],
        !.sections = [i \in Sections |->
                         RawSection(i, "p2", MaxSections - i, delSection[i])],
        !.filters = [i \in Filters |-> RawFilter(i, MaxFilters - i, delFilter[i])]]

\* Sections: any owner among p1 and p2, any section_order, any delete flag; the
\* tasks after the first are orphans (their parent is missing) filed in s1.
SectionSnapshot(own, ord, del) ==
    [DefaultData EXCEPT
        !.sections = [i \in Sections |-> RawSection(i, own[i], ord[i], del[i])],
        !.items = [i \in Items |->
                      RawItem(i, IF i > 1 THEN GhostItem ELSE Null,
                              IF i > 1 THEN "s1" ELSE Null, MaxItems - i, FALSE, <<>>)]]

\* Labels: any name (the empty name included) and item_order for every label,
\* and any sequence of at most MaxLabels label ids on task t1.
LabelLists ==
    UNION {[1..n -> LabelIds \cup {GhostLabel}] : n \in 0..MaxLabels}
LabelSnapshot(empty, ord, ls) ==
    [DefaultData EXCEPT
        !.labels = [i \in Labels |->
                       RawLabel(i, IF empty[i] THEN "" ELSE LabelNamePool[i], ord[i])],
        !.items = [i \in Items |->
                      RawItem(i, Null, DefaultSection(i), MaxItems - i, FALSE,
                              IF i = 1 THEN ls ELSE <<"l1">>)]]

\* Filters: any item_order and delete flag for every filter.
FilterSnapshot(ord, del) ==
    [DefaultData EXCEPT
        !.filters = [i \in Filters |-> RawFilter(i, ord[i], del[i])]]

\* Filing: every task parentless and live, in p1 or p2 and in no section or
\* in any section of the snapshot, whichever project owns that section.
SectionIds == {SectionIdPool[i] : i \in Sections}
FilingSnapshot(proj, sec) ==
    [DefaultData EXCEPT
        !.items = [i \in Items |->
                      [RawItem(i, Null, sec[i], MaxItems - i, FALSE, <<>>)
                          EXCEPT !.project_id = proj[i]]]]

\* The snapshots the source may yield.
IsSnapshot(d) ==
    \/ \E par \in TaskParents, del \in [Items -> BOOLEAN] : d = TaskSnapshot(par, del)
    \/ \E ord \in [Items -> Orders], sub \in [Items -> BOOLEAN],
          sec \in {Null, "s1"}, kind \in ParentKinds :
            d = OrderSnapshot(ord, sub, sec, kind)
    \/ \E par \in ProjectParents, del \in [Projects -> BOOLEAN] :
            d = ProjectSnapshot(par, del)
    \/ \E ord \in [Projects -> Orders], sub \in [Projects -> BOOLEAN], del \in BOOLEAN :
            d = ProjectOrderSnapshot(ord, sub, del)
    \/ \E delItem \in [Items -> BOOLEAN], delProject \in [Projects -> BOOLEAN],
          delSection \in [Sections -> BOOLEAN], delFilter \in [Filters -> BOOLEAN] :
            d = DeletionSnapshot(delItem, delProject, delSection, delFilter)
    \/ \E own \in [Sections -> {"p1", "p2"}], ord \in [Sections -> Orders],
          del \in [Sections -> BOOLEAN] :
            d = SectionSnapshot(own, ord, del)
    \/ \E empty \in [Labels -> BOOLEAN], ord \in [Labels -> Orders], ls \in LabelLists :
            d = LabelSnapshot(empty, ord, ls)
    \/ \E ord \in [Filters -> Orders], del \in [Filters -> BOOLEAN] :
            d = FilterSnapshot(ord, del)
    \/ \E proj \in [Items -> {"p1", "p2"}], sec \in [Items -> SectionIds \cup {Null}] :
            d = FilingSnapshot(proj, sec)

\* new Date().toISOString() at the time of the call
Timestamps == {"2024-01-01T00:00:00.000Z", "2024-01-02T00:00:00.000Z"}

-----------------------------------------------------------------------------
(* The state machine: a snapshot is fetched, then processForAI runs on it  *)

Init ==
    /\ IsSnapshot(snapshot)
    /\ data = snapshot
    /\ result = NoResult
    /\ pc = "fetched"

processForAI ==
    /\ pc = "fetched"
    /\ \E now \in Timestamps :
          LET r == Run(data, now)
          IN /\ data' = r.data
             /\ result' = r.value
    /\ pc' = "done"
    /\ UNCHANGED snapshot

Next == processForAI

Spec == Init /\ [][Next]_vars

-----------------------------------------------------------------------------
(* Reading the export and the snapshot                                     *)

Done == pc = "done"

RECURSIVE TaskNodes(_)
TaskNodes(tasks) ==
    UNION {{tasks[i]} \cup TaskNodes(tasks[i].subtasks) : i \in DOMAIN tasks}

RECURSIVE ProjectNodes(_)
ProjectNodes(ps) ==
    UNION {{ps[i]} \cup ProjectNodes(ps[i].sub_projects) : i \in DOMAIN ps}

ExportProjects == ProjectNodes(result.projects_tree)
ExportSections == UNION {{q.sections[i] : i \in DOMAIN q.sections} : q \in ExportProjects}
TopTaskSeqs == {q.tasks : q \in ExportProjects} \cup {sc.tasks : sc \in ExportSections}
ExportTasks == UNION {TaskNodes(ts) : ts \in TopTaskSeqs}
ExportFilters ==
    {result.global_definitions.available_filters[i] :
        i \in DOMAIN result.global_definitions.available_filters}

Contents(ts) == {ts[i].content : i \in DOMAIN ts}

\* Raw records of the snapshot; names and contents are unique in it, so a
\* clean record is built from the raw record that has its name or content.
SnapItems == {snapshot.items[i] : i \in DOMAIN snapshot.items}
SnapProjects == {snapshot.projects[i] : i \in DOMAIN snapshot.projects}
SnapSections == {snapshot.sections[i] : i \in DOMAIN snapshot.sections}
SnapFilters == {snapshot.filters[i] : i \in DOMAIN snapshot.filters}
SnapLabels == {snapshot.labels[i] : i \in DOMAIN snapshot.labels}

LiveItems == {t \in SnapItems : ~t.is_deleted}
LiveProjects == {q \in SnapProjects : ~q.is_deleted}
LiveSections == {sc \in SnapSections : ~sc.is_deleted}

ItemPos(content) == CHOOSE i \in DOMAIN snapshot.items : snapshot.items[i].content = content
ProjectPos(name) == CHOOSE i \in DOMAIN snapshot.projects : snapshot.projects[i].name = name
SectionPos(name) == CHOOSE i \in DOMAIN snapshot.sections : snapshot.sections[i].name = name

\* A task with no live parent: parentless, or an orphan.
HasLiveParent(t) == \E u \in LiveItems : u.id = t.parent_id
IsOrphan(t) == t.parent_id # Null /\ ~HasLiveParent(t)
IsOrphanProject(q) == q.parent_id # Null /\ ~\E u \in LiveProjects : u.id = q.parent_id

\* The project and section references of t satisfy the raw-data invariants.
WellFiled(t) ==
    /\ \E q \in LiveProjects : q.id = t.project_id
    /\ t.section_id # Null =>
          \E sc \in LiveSections : sc.id = t.section_id /\ sc.project_id = t.project_id

\* The top-level task sequence of the export in which the raw task t belongs:
\* the tasks of its project, or of its section in that project.
HomeSeqs(t) ==
    LET names == {q.name : q \in {u \in SnapProjects : u.id = t.project_id}}
        nodes == {q \in ExportProjects : q.project \in names}
    IN IF t.section_id = Null THEN {q.tasks : q \in nodes}
       ELSE UNION {{q.sections[i].tasks :
                       i \in {j \in DOMAIN q.sections :
                                 \E sc \in SnapSections :
                                     sc.id = t.section_id /\ sc.name = q.sections[j].name}} :
                   q \in nodes}

-----------------------------------------------------------------------------
(* Claims                                                                  *)

\* C1: soft-delete exclusion.  In the returned export no task node is built
\* from a deleted item, no project node from a deleted project, no section
\* from a deleted section and no available filter from a deleted filter, at
\* any depth of projects_tree.
C1_SoftDeleteExclusion ==
    Done =>
        /\ \A t \in SnapItems : t.is_deleted => t.content \notin {n.content : n \in ExportTasks}
        /\ \A q \in SnapProjects :
              q.is_deleted => q.name \notin {n.project : n \in ExportProjects}
        /\ \A sc \in SnapSections :
              sc.is_deleted => sc.name \notin {n.name : n \in ExportSections}
        /\ \A f \in SnapFilters :
              f.is_deleted => f.name \notin {n.name : n \in ExportFilters}

\* C1 witness: a finished run on a snapshot holding a deleted task, a deleted
\* project, a deleted section and a deleted filter, whose export still has
\* tasks, sub-projects and sections.
C1_Witness ==
    /\ Done
    /\ \E t \in SnapItems : t.is_deleted
    /\ \E q \in SnapProjects : q.is_deleted
    /\ \E sc \in SnapSections : sc.is_deleted
    /\ \E f \in SnapFilters : f.is_deleted
    /\ ExportTasks # {}
    /\ ExportSections # {}
    /\ ExportFilters # {}

TaskBefore(a, b) ==
    LET i == ItemPos(a.content)
        j == ItemPos(b.content)
    IN \/ snapshot.items[i].child_order < snapshot.items[j].child_order
       \/ snapshot.items[i].child_order = snapshot.items[j].child_order /\ i < j

ProjectBefore(a, b) ==
    LET i == ProjectPos(a.project)
        j == ProjectPos(b.project)
    IN \/ snapshot.projects[i].child_order < snapshot.projects[j].child_order
       \/ snapshot.projects[i].child_order = snapshot.projects[j].child_order /\ i < j

TaskSiblingSeqs == TopTaskSeqs \cup {n.subtasks : n \in ExportTasks}
ProjectSiblingSeqs == {result.projects_tree} \cup {q.sub_projects : q \in ExportProjects}

\* C3: sibling order.  In every sibling sequence of the export (subtasks of
\* a task, tasks of a section, section-less tasks of a project, sub_projects
\* of a project, the root projects_tree) the elements are in ascending
\* child_order of their raw records, equal child_order in input order.
C3_SiblingOrder ==
    Done =>
        /\ \A ts \in TaskSiblingSeqs :
              \A i, j \in DOMAIN ts : i < j => TaskBefore(ts[i], ts[j])
        /\ \A ps \in ProjectSiblingSeqs :
              \A i, j \in DOMAIN ps : i < j => ProjectBefore(ps[i], ps[j])

\* C3 witness: a finished run whose export has a top-level bucket in which a
\* promoted orphan stands before a parentless task that came earlier in the
\* input, and a pair of siblings of equal child_order.
C3_Witness ==
    /\ Done
    /\ \E ts \in TopTaskSeqs : \E i, j \in DOMAIN ts :
          /\ i < j
          /\ ItemPos(ts[i].content) > ItemPos(ts[j].content)
          /\ IsOrphan(snapshot.items[ItemPos(ts[i].content)])
          /\ snapshot.items[ItemPos(ts[j].content)].parent_id = Null
    /\ \E ts \in TaskSiblingSeqs : \E i, j \in DOMAIN ts :
          /\ i < j
          /\ snapshot.items[ItemPos(ts[i].content)].child_order
                = snapshot.items[ItemPos(ts[j].content)].child_order

\* The fields that only link raw records to each other.
HiddenFields == InternalIdFields \cup LinkageFields

\* C4: no internal identifiers leak.  No object of the export, at any depth
\* (tasks, subtasks, sections, projects, sub_projects, filters), has a field
\* id, project_id, section_id, parent_id, _id, _parentId or _childOrder.
C4_NoInternalIds ==
    Done =>
        /\ \A n \in ExportTasks : DOMAIN n \cap HiddenFields = {}
        /\ \A n \in ExportProjects : DOMAIN n \cap HiddenFields = {}
        /\ \A n \in ExportSections : DOMAIN n \cap HiddenFields = {}
        /\ \A n \in ExportFilters : DOMAIN n \cap HiddenFields = {}
        /\ DOMAIN result \cap HiddenFields = {}

\* C4 witness: a finished run whose export has a task in a section with a
\* subtask that has a subtask of its own, and a project with sub_projects.
C4_Witness ==
    /\ Done
    /\ \E sc \in ExportSections : \E i \in DOMAIN sc.tasks :
          \E j \in DOMAIN sc.tasks[i].subtasks :
              sc.tasks[i].subtasks[j].subtasks # <<>>
    /\ \E q \in ExportProjects : q.sub_projects # <<>>

\* C5: meta.stats.total_tasks is the length of the raw items collection and
\* meta.stats.total_projects the length of the raw projects collection, also
\* when some of them are deleted.
C5_RawTaskAndProjectCounts ==
    Done =>
        /\ result.meta.stats.total_tasks = Len(snapshot.items)
        /\ result.meta.stats.total_projects = Len(snapshot.projects)

\* C5 witness: a finished run on a snapshot with a deleted task and a deleted
\* project, both counted.
C5_Witness ==
    /\ Done
    /\ \E t \in SnapItems : t.is_deleted
    /\ \E q \in SnapProjects : q.is_deleted
    /\ Cardinality(ExportTasks) < result.meta.stats.total_tasks
    /\ Cardinality(ExportProjects) < result.meta.stats.total_projects

\* C6 as stated: all four counts of meta.stats are the lengths of the raw
\* collections, deleted records included; total_filters is the length of the
\* raw filters collection.
C6_AllCountsRaw ==
    Done =>
        /\ result.meta.stats.total_projects = Len(snapshot.projects)
        /\ result.meta.stats.total_tasks = Len(snapshot.items)
        /\ result.meta.stats.total_labels = Len(snapshot.labels)
        /\ result.meta.stats.total_filters = Len(snapshot.filters)

\* C6 amended: total_projects, total_tasks and total_labels are the lengths
\* of the raw collections; total_filters is the number of filters that are
\* not deleted, the length of global_definitions.available_filters.
C6_CountsRawButFilters ==
    Done =>
        /\ result.meta.stats.total_projects = Len(snapshot.projects)
        /\ result.meta.stats.total_tasks = Len(snapshot.items)
        /\ result.meta.stats.total_labels = Len(snapshot.labels)
        /\ result.meta.stats.total_filters
              = Cardinality({i \in DOMAIN snapshot.filters : ~snapshot.filters[i].is_deleted})
        /\ result.meta.stats.total_filters
              = Len(result.global_definitions.available_filters)

\* C6 witness: a finished run on a snapshot with a deleted filter, which
\* total_filters does not count.
C6_Witness ==
    /\ Done
    /\ \E f \in SnapFilters : f.is_deleted
    /\ \E f \in SnapFilters : ~f.is_deleted
    /\ result.meta.stats.total_filters < Len(snapshot.filters)

\* The name a label id stands for: the name of the label with that id, or
\* "Unknown Label" when the labels collection has no such label.
ExpectedLabel(id) ==
    IF \E l \in SnapLabels : l.id = id
    THEN (CHOOSE l \in SnapLabels : l.id = id).name
    ELSE "Unknown Label"

\* C7: label resolution.  The labels of every task of the export have the
\* length and order of the raw label ids of its item; an id of the labels
\* collection is replaced by that label's name, whatever the name, and any
\* other id by "Unknown Label".
C7_LabelResolution ==
    Done =>
        \A n \in ExportTasks :
            LET ids == snapshot.items[ItemPos(n.content)].labels
            IN n.labels = [i \in DOMAIN ids |-> ExpectedLabel(ids[i])]

\* C8: the call leaves its input unchanged: after it each of the five
\* collections holds the same records in the same order as before.
C8_InputUnchanged == Done => data = snapshot

\* Raw task a is visited before raw task b by the two loops over the items.
VisitedBefore(a, b) ==
    \/ a.child_order < b.child_order
    \/ a.child_order = b.child_order /\ ItemPos(a.content) < ItemPos(b.content)

\* C9: forward references and deep nesting.  For live tasks c and p with
\* c.parent_id = p.id, the clean record of c is among the subtasks of the
\* clean record of p wherever p stands in the export.
C9_ChildUnderParent ==
    Done =>
        \A c, p \in LiveItems :
            c.parent_id = p.id =>
                \A n \in ExportTasks :
                    n.content = p.content => c.content \in Contents(n.subtasks)

\* C9 witness: a finished run with live tasks c under p under g, p visited
\* before c (so the copy of p is attached to g before c is linked to p),
\* and the export shows g, p below it and c below p.
C9_Witness ==
    /\ Done
    /\ \E g, p, c \in LiveItems :
          /\ c.parent_id = p.id
          /\ p.parent_id = g.id
          /\ VisitedBefore(p, c)
          /\ \E n \in ExportTasks :
                /\ n.content = g.content
                /\ \E i \in DOMAIN n.subtasks :
                      /\ n.subtasks[i].content = p.content
                      /\ c.content \in Contents(n.subtasks[i].subtasks)

SectionBefore(a, b) ==
    LET i == SectionPos(a.name)
        j == SectionPos(b.name)
    IN \/ snapshot.sections[i].section_order < snapshot.sections[j].section_order
       \/ snapshot.sections[i].section_order = snapshot.sections[j].section_order /\ i < j

\* The root tasks of the bucket (project q, section sc).
Bucket(q, sc) ==
    {t \in LiveItems :
        ~HasLiveParent(t) /\ t.project_id = q.id /\ t.section_id = sc.id}

\* C10: every live section is kept.  The sections of every live project are
\* one clean section per live section of that project, in ascending
\* section_order (ties in input order), empty sections included; the tasks
\* of each are the root tasks of that project and section.
C10_EveryLiveSectionKept ==
    Done =>
        \A q \in LiveProjects :
            /\ \E n \in ExportProjects : n.project = q.name
            /\ \A n \in ExportProjects :
                  n.project = q.name =>
                      LET own == {sc \in LiveSections : sc.project_id = q.id}
                      IN /\ Len(n.sections) = Cardinality(own)
                         /\ {n.sections[i].name : i \in DOMAIN n.sections}
                               = {sc.name : sc \in own}
                         /\ \A i, j \in DOMAIN n.sections :
                               i < j => SectionBefore(n.sections[i], n.sections[j])
                         /\ \A i \in DOMAIN n.sections :
                               LET sc == snapshot.sections[SectionPos(n.sections[i].name)]
                               IN /\ Contents(n.sections[i].tasks)
                                        = {t.content : t \in Bucket(q, sc)}
                                  /\ Len(n.sections[i].tasks) = Cardinality(Bucket(q, sc))

\* C10 witness: a finished run whose export has a project with two sections,
\* the first with tasks and a later one with none.
C10_Witness ==
    /\ Done
    /\ \E n \in ExportProjects : \E i, j \in DOMAIN n.sections :
          /\ i < j
          /\ n.sections[i].tasks # <<>>
          /\ n.sections[j].tasks = <<>>

\* The number of task nodes, counted with multiplicity, whose content is in cs:
\* in a sequence of tasks and below it, in a sequence of sections, in a
\* sequence of projects and below it.
RECURSIVE TaskCount(_, _)
TaskCount(ts, cs) ==
    IF ts = <<>> THEN 0
    ELSE (IF Head(ts).content \in cs THEN 1 ELSE 0)
            + TaskCount(Head(ts).subtasks, cs) + TaskCount(Tail(ts), cs)

RECURSIVE SectionTaskCount(_, _)
SectionTaskCount(ss, cs) ==
    IF ss = <<>> THEN 0
    ELSE TaskCount(Head(ss).tasks, cs) + SectionTaskCount(Tail(ss), cs)

RECURSIVE ProjectTaskCount(_, _)
ProjectTaskCount(ps, cs) ==
    IF ps = <<>> THEN 0
    ELSE TaskCount(Head(ps).tasks, cs) + SectionTaskCount(Head(ps).sections, cs)
            + ProjectTaskCount(Head(ps).sub_projects, cs) + ProjectTaskCount(Tail(ps), cs)

\* The input invariants the claim names: unique ids, every project_id names
\* a live project, every section_id is absent or names a live section, every
\* parent_id is absent or names a task of items.  (No snapshot of the model
\* has a parent cycle.)
UniqueIds ==
    /\ \A i, j \in DOMAIN snapshot.items :
          snapshot.items[i].id = snapshot.items[j].id => i = j
    /\ \A i, j \in DOMAIN snapshot.projects :
          snapshot.projects[i].id = snapshot.projects[j].id => i = j
    /\ \A i, j \in DOMAIN snapshot.sections :
          snapshot.sections[i].id = snapshot.sections[j].id => i = j

InputInvariants ==
    /\ UniqueIds
    /\ \A t \in SnapItems :
          /\ \E q \in LiveProjects : q.id = t.project_id
          /\ t.section_id # Null => \E sc \in LiveSections : sc.id = t.section_id
          /\ t.parent_id # Null => \E u \in SnapItems : u.id = t.parent_id
    /\ \A q \in SnapProjects :
          q.parent_id # Null => \E u \in SnapProjects : u.id = q.parent_id

\* Every section_id names a section of the task's own project.
SectionsOfOwnProject ==
    \A t \in SnapItems :
        t.section_id # Null =>
            \E sc \in SnapSections : sc.id = t.section_id /\ sc.project_id = t.project_id

\* Each live task is exactly one node of projects_tree, and projects_tree has
\* as many task nodes as there are live tasks.
TasksConserved ==
    /\ \A t \in LiveItems : ProjectTaskCount(result.projects_tree, {t.content}) = 1
    /\ ProjectTaskCount(result.projects_tree, {t.content : t \in SnapItems})
          = Cardinality(LiveItems)

\* C11 as stated: task conservation.  On every snapshot that satisfies the
\* input invariants, each live task appears exactly once in projects_tree and
\* the number of task nodes is the number of live items.
C11_TaskConservation ==
    Done /\ InputInvariants => TasksConserved

\* C11 amended: the same, on the snapshots that satisfy the input invariants
\* and in which every section_id names a section of the task's own project.
C11_TaskConservationOwnSections ==
    Done /\ InputInvariants /\ SectionsOfOwnProject => TasksConserved

\* C11 witness: a finished run on a snapshot that satisfies the invariants,
\* with a deleted task, a live child of a deleted task, a live child of a
\* live task and a task filed in a section, all live tasks in the export.
C11_Witness ==
    /\ Done
    /\ InputInvariants
    /\ SectionsOfOwnProject
    /\ \E t \in LiveItems : \E u \in SnapItems : u.id = t.parent_id /\ u.is_deleted
    /\ \E t \in LiveItems : HasLiveParent(t)
    /\ \E sc \in ExportSections : sc.tasks # <<>>
    /\ TasksConserved

====
